---------------------------- MODULE Spec2Model ----------------------------
(***************************************************************************)
(* Model of the Vite CSP toolkit: the command-line script add-csp.js       *)
(* (src/unnamed/part_000) and the VS Code extension                        *)
(* (src/extension/src/extension.ts).  Both patch a vite.config file by     *)
(* regular-expression text substitution.                                   *)
(*                                                                         *)
(* Text is a sequence of lexemes (tokens).  A token stands for the         *)
(* characters between the quotes, except "NL" (a line feed), "SP" (one     *)
(* space) and "SP2" (two spaces).  Every character a regular expression    *)
(* of the program tests for (quotes, brackets, `$`, `;`, `:`, white space, *)
(* the keywords) is a token of its own; a `//` comment with none of them   *)
(* that matters to a pattern is one token.                                 *)
(***************************************************************************)
EXTENDS Integers, Sequences, FiniteSets, TLC

\* ------------------------------------------------------------------ text

Q == "'"
D == "\""
NL == "NL"
SP == "SP"
SP2 == "SP2"
\* The backtick character.
BT == "BT"

\* \s of the regular expressions, and the set String.prototype.trim strips.
IsWs(t) == t \in {SP, SP2, NL}

\* 'x'
Sq(x) == <<Q>> \o x \o <<Q>>

\* "'x'"  (a CSP keyword: single quotes inside a double-quoted literal)
Dq(x) == <<D, Q>> \o x \o <<Q, D>>

\* text.slice(from, to): tokens from+1 .. to (offsets count tokens before).
Slice(text, from, to) == SubSeq(text, from + 1, to)

\* Does pat occur in text at offset i?
OccursAt(text, pat, i) ==
  /\ i + Len(pat) <= Len(text)
  /\ \A k \in 1..Len(pat) : text[i + k] = pat[k]

\* String.prototype.includes
Includes(text, pat) == \E i \in 0..Len(text) : OccursAt(text, pat, i)

\* Number of occurrences of pat in text.
Count(text, pat) == Cardinality({i \in 0..Len(text) : OccursAt(text, pat, i)})

\* String.prototype.trimEnd
RECURSIVE trimEnd(_)
trimEnd(s) ==
  IF s # <<>> /\ IsWs(s[Len(s)]) THEN trimEnd(SubSeq(s, 1, Len(s) - 1)) ELSE s

\* String.prototype.trimStart
RECURSIVE trimStart(_)
trimStart(s) ==
  IF s # <<>> /\ IsWs(s[1]) THEN trimStart(Tail(s)) ELSE s

\* String.prototype.trim
trim(s) == trimEnd(trimStart(s))

\* The least j in lo..hi with P(j), or -1: how a scan from the left finds it.
First(lo, hi, P(_)) ==
  IF \E j \in lo..hi : P(j)
  THEN CHOOSE j \in lo..hi : P(j) /\ \A k \in lo..(j - 1) : ~P(k)
  ELSE -1

\* Offset just after the white-space run that starts at offset i (\s*).
RECURSIVE SkipWs(_, _)
SkipWs(text, i) ==
  IF i < Len(text) /\ IsWs(text[i + 1]) THEN SkipWs(text, i + 1) ELSE i

\* ------------------------------------------------------------- templates

\* URL lexemes.
LocalhostAny == <<"http:", "//", "localhost", ":*">>
WsLocalhostAny == <<"ws:", "//", "localhost", ":*">>
Origin(scheme, host) == <<scheme, "//", host>>

Rule == "//======"

\* The comment header both templates share (part_000:36-48, extension.ts:33-45).
TemplateHeader ==
  <<NL, Rule, NL,
    "//CONTENT SECURITY POLICY (CSP) CONFIGURATION", NL,
    Rule, NL,
    "//", NL,
    "//Debugging CSP errors:", NL,
    "//1. Open Chrome DevTools - Console", NL,
    "//2. Look for Refused to load or violates Content Security Policy", NL,
    "//3. The error tells you which directive blocked the resource", NL,
    "//4. Add the source to the appropriate array below", NL,
    "//", NL,
    Rule, NL,
    NL>>

PolicyDecl == <<"const", SP, "CSP_POLICY", SP, "=", SP, "{">>

\* const buildCSPString = ... (part_000:103-108, extension.ts:56-60)
BuildCSPString ==
  <<"const", SP, "buildCSPString", SP, "=", SP, "(", "policy", ":", SP,
    "Record<string, string", "[", "]", ">", ")", ":", SP, "string", SP, "=>", NL,
    SP2, "Object.entries", "(", "policy", ")", NL,
    SP2, SP2, ".map", "(", "(", "[", "directive", ",", SP, "sources", "]", ")",
    SP, "=>", SP, BT, "$", "{", "directive", "}", SP, "$", "{",
    "sources.join", "(", Q, SP, Q, ")", "}", BT, ")", NL,
    SP2, SP2, ".join", "(", Q, ";", SP, Q, ")", ";", NL>>

\* One element line of a multi-line array of the script's template.
Elem(lit) == <<SP2, SP2>> \o lit \o <<",", NL>>
ElemC(lit, comment) == <<SP2, SP2>> \o lit \o <<",", SP, comment, NL>>

\* 'key': [   (multi-line form)
KeyOpen(key) == <<SP2>> \o Sq(<<key>>) \o <<":", SP, "[", NL>>
Close == <<SP2, "]", ",", NL>>

\* part_000:36-108
CSP_POLICY_CODE ==
  TemplateHeader
  \o PolicyDecl \o <<NL>>
  \o <<SP2, "//default-src: Fallback for any directive not explicitly set", NL,
       SP2, "//self = Same origin, localhost:* = Any local port", NL>>
  \o <<SP2>> \o Sq(<<"default-src">>) \o <<":", SP, "[">>
       \o Dq(<<"self">>) \o <<",", SP>> \o Sq(LocalhostAny) \o <<",", SP>>
       \o Sq(WsLocalhostAny) \o <<"]", ",", NL, NL>>
  \o <<SP2, "//script-src: Controls which scripts can execute", NL,
       SP2, "//Add new CDNs here when you get script-related CSP errors", NL>>
  \o KeyOpen("script-src")
       \o Elem(Dq(<<"self">>))
       \o ElemC(Dq(<<"unsafe-inline">>), "//Required for inline scripts")
       \o ElemC(Dq(<<"unsafe-eval">>), "//Required for some bundlers")
       \o ElemC(Sq(LocalhostAny), "//Vite dev server")
       \o ElemC(Sq(Origin("https:", "cdn.tailwindcss.com")), "//Tailwind CSS CDN")
       \o ElemC(Sq(Origin("https:", "cdn.jsdelivr.net")), "//Popular CDN")
       \o Close \o <<NL>>
  \o <<SP2, "//style-src: Controls which stylesheets can load", NL>>
  \o KeyOpen("style-src")
       \o Elem(Dq(<<"self">>))
       \o ElemC(Dq(<<"unsafe-inline">>), "//Required for Tailwind")
       \o ElemC(Sq(Origin("https:", "fonts.googleapis.com")), "//Google Fonts CSS")
       \o Close \o <<NL>>
  \o <<SP2, "//font-src: Controls which fonts can load", NL>>
  \o KeyOpen("font-src")
       \o Elem(Dq(<<"self">>))
       \o ElemC(Sq(Origin("https:", "fonts.gstatic.com")), "//Google Fonts files")
       \o ElemC(Sq(<<"data:">>), "//Inline base64 fonts")
       \o Close \o <<NL>>
  \o <<SP2, "//img-src: Controls which images can load", NL>>
  \o KeyOpen("img-src")
       \o Elem(Dq(<<"self">>))
       \o ElemC(Sq(<<"data:">>), "//Base64 images (favicon, inline SVGs)")
       \o ElemC(Sq(<<"blob:">>), "//Generated images, canvas.toBlob()")
       \o ElemC(Sq(<<"https:">>), "//Any external HTTPS images")
       \o ElemC(Sq(LocalhostAny), "//Local dev server images")
       \o Close \o <<NL>>
  \o <<SP2, "//connect-src: Controls fetch(), XHR, WebSocket connections", NL,
       SP2, "//THIS IS WHERE YOU ADD API ENDPOINTS!", NL>>
  \o KeyOpen("connect-src")
       \o Elem(Dq(<<"self">>))
       \o ElemC(Sq(LocalhostAny), "//Local API servers")
       \o ElemC(Sq(WsLocalhostAny), "//Vite HMR WebSocket")
       \o Close \o <<NL>>
  \o <<SP2, "//worker-src: Controls Web Workers and Service Workers", NL>>
  \o KeyOpen("worker-src")
       \o Elem(Dq(<<"self">>))
       \o ElemC(Sq(<<"blob:">>), "//Required for libraries like gif.js")
       \o Close
  \o <<"}", ";", NL, NL,
       "//Converts the", SP, "CSP_POLICY", SP,
       "object into a valid CSP header string", NL>>
  \o BuildCSPString

\* 'key': [a, b, c],   (single-line form of the extension's template)
RECURSIVE Joined(_)
Joined(lits) ==
  IF Len(lits) = 0 THEN <<>>
  ELSE IF Len(lits) = 1 THEN lits[1]
  ELSE lits[1] \o <<",", SP>> \o Joined(Tail(lits))

\* Mutant: the keys of the policy object are written in double quotes.
LineDoubleQuoted(key, lits) ==
  <<SP2>> \o Dq(<<key>>) \o <<":", SP, "[">> \o Joined(lits) \o <<"]", ",", NL>>

Line(key, lits) ==
  <<SP2>> \o Sq(<<key>>) \o <<":", SP, "[">> \o Joined(lits) \o <<"]", ",", NL>>

\* extension.ts:33-60
CSP_POLICY_TEMPLATE ==
  TemplateHeader
  \o PolicyDecl \o <<NL>>
  \o Line("default-src", <<Dq(<<"self">>), Sq(LocalhostAny), Sq(WsLocalhostAny)>>)
  \o Line("script-src", <<Dq(<<"self">>), Dq(<<"unsafe-inline">>),
                          Dq(<<"unsafe-eval">>), Sq(LocalhostAny),
                          Sq(Origin("https:", "cdn.tailwindcss.com"))>>)
  \o Line("style-src", <<Dq(<<"self">>), Dq(<<"unsafe-inline">>),
                         Sq(Origin("https:", "fonts.googleapis.com"))>>)
  \o Line("font-src", <<Dq(<<"self">>),
                        Sq(Origin("https:", "fonts.gstatic.com")), Sq(<<"data:">>)>>)
  \o Line("img-src", <<Dq(<<"self">>), Sq(<<"data:">>), Sq(<<"blob:">>),
                       Sq(<<"https:">>), Sq(LocalhostAny)>>)
  \o Line("connect-src", <<Dq(<<"self">>), Sq(LocalhostAny), Sq(WsLocalhostAny)>>)
  \o Line("worker-src", <<Dq(<<"self">>), Sq(<<"blob:">>)>>)
  \o <<"}", ";", NL, NL>>
  \o BuildCSPString

\* part_000:113-118
VITE_CONFIG_SERVER ==
  <<NL,
    SP2, "server", ":", SP, "{", NL,
    SP2, SP2, "headers", ":", SP, "{", NL,
    SP2, SP2, SP2>> \o Sq(<<"Content-Security-Policy">>)
      \o <<":", SP, "buildCSPString", "(", "CSP_POLICY", ")", ",", NL,
    SP2, SP2, "}", ",", NL,
    SP2, "}", ",">>

\* extension.ts:62-67
SERVER_CONFIG == VITE_CONFIG_SERVER

\* The key of the headers entry (part_000:116, extension.ts:65).
HeadersKey == Sq(<<"Content-Security-Policy">>)

\* The marker both surfaces test for: content.includes('CSP_POLICY').
Marker == <<"CSP_POLICY">>

\* Mutant: the test looks for the name of the template constant, which is not
\* in the inserted text.
isAlreadyPatchedByConstantName(content) == Includes(content, <<"CSP_POLICY_CODE">>)

\* part_000:167, 230; extension.ts:119, 168, 297
isAlreadyPatched(content) == Includes(content, Marker)

\* ------------------------------------------------- regular expressions

NoMatch == [found |-> FALSE, index |-> 0, end |-> 0, capFrom |-> 0, capTo |-> 0]

\* A match: text[index+1 .. end] is match[0], text[capFrom+1 .. capTo] is match[1].
Match(i, e, cf, ct) ==
  [found |-> TRUE, index |-> i, end |-> e, capFrom |-> cf, capTo |-> ct]

IsQuote(t) == t \in {Q, D}

\* Smallest offset r >= i with a quote at r+1; Len(text) if there is none.
NextQuote(text, i) ==
  First(i, Len(text), LAMBDA k : k = Len(text) \/ IsQuote(text[k + 1]))

\* ;?\s*  after the closing quote at r+1: the offset after it.
AfterClosing(text, r) ==
  SkipWs(text, IF r + 1 < Len(text) /\ text[r + 2] = ";" THEN r + 2 ELSE r + 1)

\* [^'"]+['"];?\s*  after the opening quote at w+1, r the offset of the next
\* quote: the offset after it, or -1.
AfterOpening(text, w, r) ==
  IF r > w + 1 /\ r < Len(text) THEN AfterClosing(text, r) ELSE -1

\* ['"][^'"]+['"];?\s*  at offset w, where the white space after `from` (that
\* began at q) ends: the offset after it, or -1.
AfterSpace(text, q, w) ==
  IF w > q /\ w < Len(text) /\ IsQuote(text[w + 1])
  THEN AfterOpening(text, w, NextQuote(text, w + 1))
  ELSE -1

\* \s+['"][^'"]+['"];?\s*  at offset q (just after `from`): the offset after
\* it, or -1.
AfterFrom(text, q) == AfterSpace(text, q, SkipWs(text, q))

\* The rest of the statement after the `from` at offset j (-1: there is none).
AfterFromAt(text, j) == IF j = -1 THEN -1 ELSE AfterFrom(text, j + 1)

\* [\s\S]*?from... : the first `from` at offset >= k after which the rest of
\* the statement matches (lazy), or -1.
LazyFrom(text, k) ==
  AfterFromAt(text, First(k, Len(text) - 1,
                          LAMBDA x : text[x + 1] = "from" /\ AfterFrom(text, x + 1) # -1))

\* One iteration of the group at offset p: import[\s\S]*?from\s+['"][^'"]+['"];?\s*
ImportStatement(text, p) ==
  IF p < Len(text) /\ text[p + 1] = "import" THEN LazyFrom(text, p + 1) ELSE -1

\* ( ... )+ at offset p, greedy: the offset after the last iteration, or -1.
RECURSIVE ImportRun(_, _)

\* The run after an iteration that ended at offset e (-1: it did not match).
ImportRunAfter(text, e) ==
  IF e = -1 THEN -1
  ELSE LET longest(e2) == IF e2 = -1 THEN e ELSE e2 IN longest(ImportRun(text, e))

ImportRun(text, p) == ImportRunAfter(text, ImportStatement(text, p))

\* ^ under the m flag: the start of the text or just after a line feed.
LineStart(text, i) == i = 0 \/ (i <= Len(text) /\ text[i] = NL)

\* The match that starts at offset i (-1: no match) and ends at offset e.
MatchAt(i, e) == IF i = -1 THEN NoMatch ELSE Match(i, e, i, e)

\* part_000:177, extension.ts:132
\*   /^(import[\s\S]*?from\s+['"][^'"]+['"];?\s*)+/m
importRegex(text) ==
  LET from(i) == MatchAt(i, IF i = -1 THEN -1 ELSE ImportRun(text, i))
  IN from(First(0, Len(text), LAMBDA x : LineStart(text, x) /\ ImportRun(text, x) # -1))

\* One piece of a pattern at offset i: \s+, \s* or a lexeme; the offset after
\* it, or -1.
Piece(text, piece, i) ==
  CASE piece = "\\s*" -> SkipWs(text, i)
    [] piece = "\\s+" -> IF i < Len(text) /\ IsWs(text[i + 1]) THEN SkipWs(text, i) ELSE -1
    [] OTHER -> IF i < Len(text) /\ text[i + 1] = piece THEN i + 1 ELSE -1

\* The pieces one after the other from offset i: the offset after, or -1.
RECURSIVE Pieces(_, _, _)
Pieces(text, pieces, i) ==
  IF i = -1 \/ pieces = <<>> THEN i
  ELSE Pieces(text, Tail(pieces), Piece(text, Head(pieces), i))

\* export\s+default\s+defineConfig\s*\(\s*\{ at offset i: the offset after, or -1.
ConfigAt(text, i) ==
  Pieces(text, <<"export", "\\s+", "default", "\\s+", "defineConfig", "\\s*", "(",
                 "\\s*", "{">>, i)

\* part_000:194, extension.ts:144
\*   /export\s+default\s+defineConfig\s*\(\s*\{/
configRegex(text) ==
  LET from(i) == MatchAt(i, IF i = -1 THEN -1 ELSE ConfigAt(text, i))
  IN from(First(0, Len(text) - 1, LAMBDA x : ConfigAt(text, x) # -1))

\* Smallest offset r >= i with `]` at r+1, or -1.
NextClose(text, i) == First(i, Len(text) - 1, LAMBDA k : text[k + 1] = "]")

\* ([^\]]*)\]  after the `[` at offset b+1, c the offset of the next `]`.
Captured(i, b, c) == IF c = -1 THEN NoMatch ELSE Match(i, c + 1, b + 1, c)

\* \[([^\]]*)\]  at offset b, where the white space after the key ends.
ArrayAt(text, i, b) ==
  IF b < Len(text) /\ text[b + 1] = "[" THEN Captured(i, b, NextClose(text, b + 1))
  ELSE NoMatch

\* '<directive>':\s*\[([^\]]*)\]  at offset i: the match, or NoMatch.
DirectiveAt(text, directive, i) ==
  IF OccursAt(text, <<Q, directive, Q, ":">>, i)
  THEN ArrayAt(text, i, SkipWs(text, i + 4))
  ELSE NoMatch

\* part_000:280, extension.ts:219, extension.ts:315
\*   new RegExp(`'${directive}':\\s*\\[([^\\]]*)\\]`, 's')
directiveRegex(text, directive) ==
  LET from(i) == IF i = -1 THEN NoMatch ELSE DirectiveAt(text, directive, i)
  IN from(First(0, Len(text), LAMBDA x : DirectiveAt(text, directive, x).found))

\* The text a replacement pattern stands for.
Substitute(c, before, matched, after, cap) ==
  CASE c = "$" -> <<"$">>
    [] c = "&" -> matched
    [] c = BT -> before
    [] c = Q -> after
    [] c = "1" -> cap

\* The replacement-string patterns of String.prototype.replace:
\* $$ is `$`, $& the match, $` the text before it, $' the text after it, $1 the
\* first capture; any other `$` stands for itself.
RECURSIVE GetSubstitution(_, _, _, _, _)

\* repl with its patterns expanded, d the place of its first pattern (-1: none).
GetSubstitutionAt(repl, d, before, matched, after, cap) ==
  IF d = -1 THEN repl
  ELSE SubSeq(repl, 1, d - 1)
         \o Substitute(repl[d + 1], before, matched, after, cap)
         \o GetSubstitution(SubSeq(repl, d + 2, Len(repl)), before, matched, after, cap)

GetSubstitution(repl, before, matched, after, cap) ==
  GetSubstitutionAt(repl,
    First(1, Len(repl) - 1,
          LAMBDA k : repl[k] = "$" /\ repl[k + 1] \in {"$", "&", BT, Q, "1"}),
    before, matched, after, cap)

\* text.replace(regex, replacement) for the match m of a regex without the g flag.
replace(text, m, replacement) ==
  Slice(text, 0, m.index)
    \o GetSubstitution(replacement, Slice(text, 0, m.index), Slice(text, m.index, m.end),
                       Slice(text, m.end, Len(text)), Slice(text, m.capFrom, m.capTo))
    \o Slice(text, m.end, Len(text))

\* ------------------------------------------------------- the patch steps

\* Mutant: the template takes the place of the text before the insertion point.
insertPolicyBlockOverImports(content, template) ==
  LET inserted(match, insertPoint) ==
        IF match.found
        THEN <<NL>> \o template \o <<NL>> \o Slice(content, insertPoint, Len(content))
        ELSE template \o <<NL>> \o content
      at(match) == inserted(match, match.end - match.index)
  IN at(importRegex(content))

\* Mutant: no template is put in.
insertPolicyBlockDropped(content, template) == content

\* Mutant: the template always goes to the top of the file.
insertPolicyBlockOnTop(content, template) == template \o <<NL>> \o content

\* part_000:176-191, extension.ts:131-141
insertPolicyBlock(content, template) ==
  LET inserted(match, insertPoint) ==
        IF match.found
        THEN Slice(content, 0, insertPoint) \o <<NL>> \o template \o <<NL>>
               \o Slice(content, insertPoint, Len(content))
        ELSE template \o <<NL>> \o content
      at(match) == inserted(match, match.end - match.index)     \* match[0].length
  IN at(importRegex(content))

ExportDefault == <<"export", SP, "default", SP, "defineConfig", "(", "{">>

\* Mutant: the last occurrence of the pattern is the one replaced.
insertServerHeadersLast(newContent, server) ==
  LET at(i) == MatchAt(i, IF i = -1 THEN -1 ELSE ConfigAt(newContent, i))
      last == First(0, Len(newContent) - 1,
                    LAMBDA x : /\ ConfigAt(newContent, x) # -1
                               /\ \A y \in (x + 1)..(Len(newContent) - 1) :
                                      ConfigAt(newContent, y) = -1)
  IN IF last = -1 THEN newContent
     ELSE replace(newContent, at(last), ExportDefault \o server)

\* Mutant: the headers literal is never put in.
insertServerHeadersNever(newContent, server) == newContent

\* part_000:193-204, extension.ts:143-147
insertServerHeaders(newContent, server) ==
  LET replaced(match) ==
        IF match.found THEN replace(newContent, match, ExportDefault \o server)
        ELSE newContent
  IN replaced(configRegex(newContent))

\* part_000:283-289, extension.ts:222-226, 319-329: the text after the append
\* of the quoted token newSource, given that the directive's pattern matched.
appendSource(content, directive, newSource) ==
  LET updatedArray(originalArray) ==
        trimEnd(originalArray) \o <<",", NL, SP2, SP2>> \o newSource \o <<",">>
      replaced(match) ==
        replace(content, match,
                Sq(<<directive>>) \o <<":", SP, "[">>
                  \o updatedArray(Slice(content, match.capFrom, match.capTo)) \o <<"]">>)
  IN replaced(directiveRegex(content, directive))

\* part_000:285, extension.ts:224: `'${source.trim()}'`
quoted(source) == Sq(trim(source))

\* ------------------------------------------------------------ the inputs

\* Invocations started in one run of the model.
MaxInvocations == 2

\* File-system calls (copyFileSync, writeFileSync) that raise in one run.
MaxFaults == 1

\* import { defineConfig } from 'vite';
ImportLine ==
  <<"import", SP, "{", SP, "defineConfig", SP, "}", SP, "from", SP, Q, "vite", Q, ";", NL>>

\* The scenario file of the specification: one import line, then the call.
Scenario ==
  ImportLine
  \o <<"export", SP, "default", SP, "defineConfig", "(", "{", NL,
       SP2, "plugins", ":", SP, "[", "]", ",", NL,
       "}", ")", ";", NL>>

\* export default defineConfig({\n});
Minimal == <<"export", SP, "default", SP, "defineConfig", "(", "{", NL, "}", ")", ";">>

\* A comment line before the import.
Commented == <<"//vite configuration", NL>> \o Scenario

\* No import and no defineConfig call.
Plain == <<"module.exports", SP, "=", SP, "{", "}", ";", NL>>

\* The marker in a comment, and no policy block.
Noted == <<"//TODO add a", SP, "CSP_POLICY", NL>> \o Scenario

\* The call written with a space before its parenthesis, and a second
\* occurrence of the call shape in a comment after it.
Twice ==
  ImportLine
  \o <<"export", SP, "default", SP, "defineConfig", SP, "(", "{", NL, "}", ")", ";", NL,
       "//", SP, "export", SP, "default", SP, "defineConfig", "(", "{", "}", ")", NL>>

\* The scenario file after the extension's full patch.
Patched ==
  insertServerHeaders(insertPolicyBlock(Scenario, CSP_POLICY_TEMPLATE), SERVER_CONFIG)

InitTexts == {Scenario, Minimal, Commented, Plain, Noted, Twice, Patched}

\* What the operator types at the source prompt.
Api == Origin("https:", "api.example.com")
Loopback6 == <<"http:", "//", "[", "::1", "]">>
SourceInputs == {Api, Loopback6, <<"$", BT>>, <<SP>>}

\* What the operator answers to `Enter number (1-6): `.
ChoiceInputs == {"1", "6", "9", "constructor"}

\* The directive the extension's quick pick returns (or a cancel).
PickInputs == {"script-src", "worker-src"}

\* What the two captures of fixCSPError (extension.ts:251-252) give for the
\* pasted console error: the directive named and the first quoted string.
\* The input box dismissed, and a text one of the captures fails on.
Dismissed == [directive |-> "undefined", source |-> <<>>]
Unparsable == [directive |-> "null", source |-> <<>>]

ErrorInputs ==
  { [directive |-> "script-src-elem", source |-> Api \o <<"/v1/users", "?id=1">>],
    [directive |-> "worker-src", source |-> <<"blob:">> \o Api \o <<"/0a1b">>],
    [directive |-> "frame-src", source |-> Api],
    [directive |-> "script-src", source |-> <<"inline">>],
    [directive |-> "script-src", source |-> Loopback6 \o <<":5173", "/@vite/client">>],
    [directive |-> "script-src-elem", source |-> Api \o <<":8443", "/v1/users">>],
    Dismissed, Unparsable }

\* ------------------------------------------------------------- the state

possibleFiles == <<"vite.config.ts", "vite.config.js", "vite.config.mjs">>

Names == {possibleFiles[k] : k \in 1..Len(possibleFiles)}

Procs == {"A", "B"}

VARIABLES
  dir,         \* the candidate file names that exist in the working directory
  files,       \* the content of each
  backups,     \* the backup files: a set of [path, stamp, content]
  now,         \* the last value Date.now() returned
  autoBackup,  \* the extension's setting viteCsp.autoBackup
  inv,         \* the invocation running (or last run) in each process
  justPatched, \* the invocation before the current one was a full patch that wrote
  started,     \* invocations started so far
  faults       \* file-system calls that raised so far

vars == <<dir, files, backups, now, autoBackup, inv, justPatched, started, faults>>

NoInvocation ==
  [surface |-> "-", cmd |-> "-", fn |-> "-", pc |-> "idle", path |-> "null",
   content |-> <<>>, newContent |-> <<>>, directive |-> "-", source |-> <<>>,
   outcome |-> "-", exit |-> -1, message |-> "none", manual |-> FALSE,
   trace |-> <<>>, backedUp |-> FALSE, stamp |-> -1, backupFailed |-> FALSE, writes |-> 0,
   chained |-> FALSE]

Commands ==
  { <<"cli", "addCSPConfiguration">>, <<"cli", "addCSPSource">>,
    <<"ext", "addCSPConfiguration">>, <<"ext", "addCSPSource">>,
    <<"ext", "fixCSPError">> }

InitConfigs ==
  {<<S, Scenario>> : S \in SUBSET Names}
    \cup {<<{possibleFiles[1]}, t>> : t \in InitTexts}

Init ==
  /\ \E c \in InitConfigs :
       /\ dir = c[1]
       /\ files = [n \in Names |-> IF n \in c[1] THEN c[2] ELSE <<>>]
  /\ backups = {}
  /\ now = 0
  /\ autoBackup \in BOOLEAN
  /\ inv = [p \in Procs |-> NoInvocation]
  /\ justPatched = FALSE
  /\ started = 0
  /\ faults = 0

\* ----------------------------------------------------------- operations

Running(p) == inv[p].pc \notin {"idle", "done"}

\* Mutant: the loop keeps the last candidate that exists.
findViteConfigLast(d) ==
  LET hits == {k \in 1..Len(possibleFiles) : possibleFiles[k] \in d}
  IN IF hits = {} THEN "null"
     ELSE possibleFiles[CHOOSE k \in hits : \A j \in hits : k >= j]

\* part_000:124-138, extension.ts:90-107: the first candidate that exists.
findViteConfig(d) ==
  LET hits == {k \in 1..Len(possibleFiles) : possibleFiles[k] \in d}
  IN IF hits = {} THEN "null"
     ELSE possibleFiles[CHOOSE k \in hits : \A j \in hits : k <= j]

\* Keys every object inherits from Object.prototype.
InheritedKeys == {"constructor", "toString", "valueOf", "hasOwnProperty"}

\* part_000:252-261: directiveMap[choice.trim()], a property lookup.
directiveMap(choice) ==
  CASE choice = "1" -> "script-src"
    [] choice = "2" -> "style-src"
    [] choice = "3" -> "font-src"
    [] choice = "4" -> "connect-src"
    [] choice = "5" -> "img-src"
    [] choice = "6" -> "worker-src"
    [] choice \in InheritedKeys -> "function () { [native code] }"
    [] OTHER -> "undefined"

\* extension.ts:263-274: directiveMap[directive] || directive
mappedDirective(directive) ==
  CASE directive \in {"script-src", "script-src-elem"} -> "script-src"
    [] directive \in {"style-src", "style-src-elem"} -> "style-src"
    [] OTHER -> directive

\* The template and the headers literal each surface inserts.
TemplateOf(surface) == IF surface = "cli" THEN CSP_POLICY_CODE ELSE CSP_POLICY_TEMPLATE
ServerOf(surface) == IF surface = "cli" THEN VITE_CONFIG_SERVER ELSE SERVER_CONFIG

\* Mutant: the script, too, makes its backup only when the setting is on.
backupWantedOnlyIfSet(surface, setting) == setting

\* part_000:174, 277 (always); extension.ts:126, 213, 304 (if the setting is on).
backupWanted(surface, setting) == surface = "cli" \/ setting

\* The invocation i ends: process.exit(code) or an uncaught error in the
\* script, a return (with the message shown, if any) in the extension.
Halt(i, outcome, code, message) ==
  [i EXCEPT !.pc = "done", !.outcome = outcome,
            !.exit = IF i.surface = "cli" THEN code ELSE -1,
            !.message = IF i.surface = "ext" THEN message ELSE "none",
            !.trace = Append(@, "Halt")]

Goto(i, pc, phase) == [i EXCEPT !.pc = pc, !.trace = Append(@, phase)]

\* A command is invoked: `node add-csp.js [--add-source]`, or a command of the
\* extension from the palette.
Start(p, c) ==
  /\ ~Running(p)
  /\ started < MaxInvocations
  /\ started' = started + 1
  /\ inv' = [inv EXCEPT ![p] =
       [NoInvocation EXCEPT !.surface = c[1], !.cmd = c[2], !.fn = c[2],
                            !.pc = IF c[2] = "fixCSPError" THEN "paste" ELSE "find"]]
  /\ justPatched' = (inv[p].outcome = "Patched")
  /\ UNCHANGED <<dir, files, backups, now, autoBackup, faults>>

\* part_000:150-159, 221-226; extension.ts:110-115, 159-164, 289-293
afterFind(i, path) ==
  IF path = "null" THEN Halt(i, "NoConfigFound", 1, "error")
  ELSE Goto([i EXCEPT !.path = path], "read", "Located")

FindViteConfig(p) ==
  /\ inv[p].pc = "find"
  /\ inv' = [inv EXCEPT ![p] = afterFind(inv[p], findViteConfig(dir))]
  /\ UNCHANGED <<dir, files, backups, now, autoBackup, justPatched, started, faults>>

\* part_000:164-171, 228-234; extension.ts:117-122, 166-177, 295-300
afterRead(i, text) ==
  LET j == [i EXCEPT !.content = text]
  IN CASE i.fn = "addCSPConfiguration" ->
            IF isAlreadyPatched(text)
            THEN Halt(Goto(j, "done", "AlreadyPatched"), "AlreadyPatched", 0, "warning")
            ELSE Goto(j, "backup", "NotPatched")
       [] i.fn = "addCSPSource" ->
            IF ~isAlreadyPatched(text)
            THEN IF i.surface = "cli" THEN Halt(j, "NotPatched", 1, "error")
                 ELSE [j EXCEPT !.pc = "offer", !.message = "error"]
            ELSE [j EXCEPT !.pc = "directive"]
       [] OTHER ->
            IF ~isAlreadyPatched(text) THEN Halt(j, "NotPatched", 1, "error")
            ELSE [j EXCEPT !.pc = "backup"]

ReadConfig(p) ==
  /\ inv[p].pc = "read"
  /\ inv' = [inv EXCEPT ![p] = afterRead(inv[p], files[inv[p].path])]
  /\ UNCHANGED <<dir, files, backups, now, autoBackup, justPatched, started, faults>>

\* extension.ts:169-176: the error message's `Add Configuration` button runs
\* addCSPConfiguration inside this command; anything else returns.
afterOffer(i, accepted) ==
  IF accepted
  THEN [i EXCEPT !.fn = "addCSPConfiguration", !.pc = "find", !.chained = TRUE,
                 !.trace = <<>>, !.message = "none"]
  ELSE Halt(i, "NotPatched", 1, "error")

Offer(p) ==
  /\ inv[p].pc = "offer"
  /\ \E accepted \in BOOLEAN : inv' = [inv EXCEPT ![p] = afterOffer(inv[p], accepted)]
  /\ UNCHANGED <<dir, files, backups, now, autoBackup, justPatched, started, faults>>

\* part_000:251-266 (the answer, trimmed, looked up in directiveMap);
\* extension.ts:180-193 (the quick pick, "undefined" when dismissed)
afterDirective(i, answer) ==
  LET d == IF i.surface = "cli" THEN directiveMap(answer) ELSE answer
  IN IF d = "undefined"
     THEN IF i.surface = "cli" THEN Halt(i, "InvalidChoice", 1, "error")
          ELSE Halt(i, "Cancelled", 0, "none")
     ELSE [i EXCEPT !.directive = d, !.pc = "source"]

ChooseDirective(p) ==
  /\ inv[p].pc = "directive"
  /\ \E answer \in IF inv[p].surface = "cli" THEN ChoiceInputs
                   ELSE PickInputs \cup {"undefined"} :
       inv' = [inv EXCEPT ![p] = afterDirective(inv[p], answer)]
  /\ UNCHANGED <<dir, files, backups, now, autoBackup, justPatched, started, faults>>

\* Mutant: whatever the operator answers goes on to the backup.
afterSourceUnchecked(i, answer) == [i EXCEPT !.source = answer, !.pc = "backup"]

\* part_000:268-274; extension.ts:196-209 (validateInput refuses a blank
\* value, so the box gives a non-blank string or, dismissed, nothing: <<>>)
afterSource(i, answer) ==
  IF i.surface = "cli"
  THEN IF trim(answer) = <<>> THEN Halt(i, "EmptySourceInput", 1, "error")
       ELSE [i EXCEPT !.source = answer, !.pc = "backup"]
  ELSE IF answer = <<>> THEN Halt(i, "Cancelled", 0, "none")
       ELSE [i EXCEPT !.source = answer, !.pc = "backup"]

ChooseSource(p) ==
  /\ inv[p].pc = "source"
  /\ \E answer \in IF inv[p].surface = "cli" THEN SourceInputs
                   ELSE {s \in SourceInputs : trim(s) # <<>>} \cup {<<>>} :
       inv' = [inv EXCEPT ![p] = afterSource(inv[p], answer)]
  /\ UNCHANGED <<dir, files, backups, now, autoBackup, justPatched, started, faults>>

\* part_000:141-142: `${filePath}.backup.${Date.now()}`, written by
\* fs.copyFileSync, which replaces a file of that name.
backupFile(set, path, stamp, text) ==
  {b \in set : ~(b.path = path /\ b.stamp = stamp)}
    \cup {[path |-> path, stamp |-> stamp, content |-> text]}

\* part_000:174, 277; extension.ts:125-129, 212-216, 303-307: the copy is made.
\* Date.now() has not gone back since it was last read; whether it has advanced
\* matters only when there is a backup already.
BackupFile(p) ==
  /\ inv[p].pc = "backup"
  /\ backupWanted(inv[p].surface, autoBackup)
  /\ \E dt \in IF backups = {} THEN {1} ELSE {0, 1} :
       /\ now' = now + dt
       /\ backups' = backupFile(backups, inv[p].path, now + dt, files[inv[p].path])
       /\ inv' = [inv EXCEPT ![p] =
            Goto([@ EXCEPT !.backedUp = TRUE, !.stamp = now + dt], "mutate", "BackedUp")]
  /\ UNCHANGED <<dir, files, autoBackup, justPatched, started, faults>>

\* Mutant: the error of the copy is swallowed and the patch goes on.
afterBackupErrorSwallowed(i) == [i EXCEPT !.backupFailed = TRUE, !.pc = "mutate"]

\* fs.copyFileSync raises: the script's full patch dies of the uncaught error
\* (exit status 1), its add-source ends in `.catch(console.error)` (part_000:308,
\* exit status 0), the extension's command is rejected.
afterBackupError(i) ==
  Halt([i EXCEPT !.backupFailed = TRUE], "BackupWriteFailed",
       IF i.fn = "addCSPConfiguration" THEN 1 ELSE 0, "none")

BackupFails(p) ==
  /\ inv[p].pc = "backup"
  /\ backupWanted(inv[p].surface, autoBackup)
  /\ faults < MaxFaults
  /\ faults' = faults + 1
  /\ inv' = [inv EXCEPT ![p] = afterBackupError(@)]
  /\ UNCHANGED <<dir, files, backups, now, autoBackup, justPatched, started>>

\* extension.ts:126, 213, 304: autoBackup is off, no copy is made.
SkipBackup(p) ==
  /\ inv[p].pc = "backup"
  /\ ~backupWanted(inv[p].surface, autoBackup)
  /\ inv' = [inv EXCEPT ![p].pc = "mutate"]
  /\ UNCHANGED <<dir, files, backups, now, autoBackup, justPatched, started, faults>>

\* new URL(source) of extension.ts:311 on the lexemes of the source.
Schemes == {"http:", "https:", "ws:", "blob:", "data:"}
SpecialSchemes == {"http:", "https:", "ws:"}
Hosts == {"api.example.com", "cdn.example.com", "localhost"}

\* url.hostname
hostname(source) ==
  IF Len(source) >= 3 /\ source[1] \in SpecialSchemes /\ source[2] = "//"
  THEN IF source[3] \in Hosts THEN <<source[3]>>
       ELSE IF Len(source) >= 5 /\ source[3] = "[" /\ source[5] = "]"
            THEN SubSeq(source, 3, 5)
            ELSE <<>>
  ELSE <<>>

\* url.port: the port lexeme that follows the host name, if any.
Ports == {":5173", ":8443"}
port(source) ==
  LET after == 3 + Len(hostname(source))
  IN IF hostname(source) # <<>> /\ Len(source) >= after /\ source[after] \in Ports
     THEN <<source[after]>>
     ELSE <<>>

\* url.host: the host name and the port.
host(source) == hostname(source) \o port(source)

\* Does new URL(source) return (rather than throw)?
validURL(source) ==
  /\ Len(source) >= 1
  /\ source[1] \in Schemes
  /\ source[1] \in SpecialSchemes => hostname(source) # <<>>

\* extension.ts:312: `${url.protocol}//${url.hostname}`
domainOf(source) == <<source[1], "//">> \o hostname(source)

\* part_000:200-204: when configRegex does not match, the script prints the
\* headers literal for the operator to add by hand; extension.ts:145-147 has no
\* else branch and shows nothing.
instructionsShown(surface, found) == surface = "cli" /\ ~found

\* part_000:176-204, extension.ts:131-147
patched(i) ==
  LET headed(withPolicy) ==
        Goto([i EXCEPT !.newContent = insertServerHeaders(withPolicy, ServerOf(i.surface)),
                       !.manual = instructionsShown(i.surface, configRegex(withPolicy).found)],
             "write", "Mutated")
  IN headed(insertPolicyBlock(i.content, TemplateOf(i.surface)))

\* Mutant: the extension puts the source in double quotes.
appendedDoubleQuotedInEditor(i) ==
  IF directiveRegex(i.content, i.directive).found
  THEN Goto([i EXCEPT !.newContent =
               appendSource(i.content, i.directive,
                            IF i.surface = "ext" THEN Dq(trim(i.source))
                            ELSE Sq(trim(i.source)))],
            "write", "Mutated")
  ELSE Halt(i, "DirectiveNotFound", 1, "error")

\* Mutant: the append is made whether or not the pattern matched.
appendedUnchecked(i) ==
  Goto([i EXCEPT !.newContent = appendSource(i.content, i.directive, quoted(i.source))],
       "write", "Mutated")

\* part_000:279-298, extension.ts:218-236
appended(i) ==
  IF directiveRegex(i.content, i.directive).found
  THEN Goto([i EXCEPT !.newContent = appendSource(i.content, i.directive, quoted(i.source))],
            "write", "Mutated")
  ELSE Halt(i, "DirectiveNotFound", 1, "error")

\* extension.ts:309-339
appendedWithValues(i) ==
  LET added(match, newSource) ==
        IF ~match.found THEN Halt(i, "DirectiveNotFound", 1, "none")
        ELSE IF Includes(Slice(i.content, match.capFrom, match.capTo), newSource)
             THEN Halt(i, "SourceExists", 0, "info")
             ELSE Goto([i EXCEPT !.newContent =
                                   appendSource(i.content, i.directive, newSource)],
                       "write", "Mutated")
  IN IF ~validURL(i.source) THEN Halt(i, "InvalidURL", 1, "error")
     ELSE added(directiveRegex(i.content, i.directive), Sq(domainOf(i.source)))

\* The new text is computed in memory.
Mutate(p) ==
  /\ inv[p].pc = "mutate"
  /\ inv' = [inv EXCEPT ![p] =
       CASE @.fn = "addCSPConfiguration" -> patched(@)
         [] @.fn = "addCSPSource" -> appended(@)
         [] OTHER -> appendedWithValues(@)]
  /\ UNCHANGED <<dir, files, backups, now, autoBackup, justPatched, started, faults>>

\* Mutant: after its write the invocation writes once more, the text it read.
writtenThenRestored(i) ==
  [i EXCEPT !.writes = @ + 1,
            !.pc = IF i.writes = 0 THEN "write" ELSE "done",
            !.newContent = IF i.writes = 0 THEN i.content ELSE <<>>,
            !.outcome = IF i.fn = "addCSPConfiguration" THEN "Patched" ELSE "Added"]

\* part_000:207-215, 291-294; extension.ts:149-151, 228-229, 331-332
written(i) ==
  [Goto(Goto(i, "done", "Written"), "done", "Done")
     EXCEPT !.writes = @ + 1, !.newContent = <<>>,
            !.outcome = IF i.fn = "addCSPConfiguration" THEN "Patched" ELSE "Added",
            !.exit = IF i.surface = "cli" THEN 0 ELSE -1,
            !.message = IF i.surface = "ext" THEN "info" ELSE "none"]

\* Mutant: the write is made only if the file still holds what was read.
WriteConfigIfUnchanged(p) ==
  /\ inv[p].pc = "write"
  /\ files[inv[p].path] = inv[p].content
  /\ files' = [files EXCEPT ![inv[p].path] = inv[p].newContent]
  /\ inv' = [inv EXCEPT ![p] = written(@)]
  /\ UNCHANGED <<dir, backups, now, autoBackup, justPatched, started, faults>>

\* fs.writeFileSync(viteConfigPath, newContent, 'utf8')
WriteConfig(p) ==
  /\ inv[p].pc = "write"
  /\ files' = [files EXCEPT ![inv[p].path] = inv[p].newContent]
  /\ inv' = [inv EXCEPT ![p] = written(@)]
  /\ UNCHANGED <<dir, backups, now, autoBackup, justPatched, started, faults>>

\* Mutant: a failed write is tried again from the backup on.
afterWriteErrorRetried(i) == Goto(i, "backup", "Halt")

\* fs.writeFileSync raises before it changes the file.  addSourceWithValues
\* catches it (extension.ts:337-339) and shows `Invalid URL in CSP error`.
afterWriteError(i) ==
  Halt(i, "WriteFailed", IF i.fn = "addCSPConfiguration" THEN 1 ELSE 0,
       IF i.fn = "addSourceWithValues" THEN "error" ELSE "none")

WriteFails(p) ==
  /\ inv[p].pc = "write"
  /\ faults < MaxFaults
  /\ faults' = faults + 1
  /\ inv' = [inv EXCEPT ![p] = afterWriteError(@)]
  /\ UNCHANGED <<dir, files, backups, now, autoBackup, justPatched, started>>

\* extension.ts:240-260
afterPaste(i, e) ==
  IF e = Dismissed THEN Halt(i, "Cancelled", 0, "none")
  ELSE IF e = Unparsable THEN Halt(i, "ParseFailed", 1, "error")
  ELSE [i EXCEPT !.directive = mappedDirective(e.directive), !.source = e.source,
                 !.pc = "confirm"]

PasteError(p) ==
  /\ inv[p].pc = "paste"
  /\ \E e \in ErrorInputs : inv' = [inv EXCEPT ![p] = afterPaste(@, e)]
  /\ UNCHANGED <<dir, files, backups, now, autoBackup, justPatched, started, faults>>

\* extension.ts:276-285
afterConfirm(i, yes) ==
  IF yes THEN [i EXCEPT !.fn = "addSourceWithValues", !.pc = "find"]
  ELSE Halt(i, "Cancelled", 0, "none")

Confirm(p) ==
  /\ inv[p].pc = "confirm"
  /\ \E yes \in BOOLEAN : inv' = [inv EXCEPT ![p] = afterConfirm(@, yes)]
  /\ UNCHANGED <<dir, files, backups, now, autoBackup, justPatched, started, faults>>

\* ------------------------------------------------------ specifications

Step(p) ==
  \/ FindViteConfig(p)
  \/ ReadConfig(p)
  \/ Offer(p)
  \/ ChooseDirective(p)
  \/ ChooseSource(p)
  \/ BackupFile(p)
  \/ BackupFails(p)
  \/ SkipBackup(p)
  \/ Mutate(p)
  \/ WriteConfig(p)
  \/ WriteFails(p)
  \/ PasteError(p)
  \/ Confirm(p)

\* One operator, one terminal: an invocation starts when none is running.
StartAlone(c) ==
  /\ \A q \in Procs : ~Running(q)
  /\ Start("A", c)

Next ==
  \/ \E c \in Commands : StartAlone(c)
  \/ \E p \in Procs : Step(p)

Spec == Init /\ [][Next]_vars

\* Two terminals (or a terminal and the editor) on the same project: nothing
\* in the code keeps an invocation from starting while another is running, so
\* the steps of two invocations interleave freely.
RaceInit ==
  /\ dir = {possibleFiles[1]}
  /\ \E t \in {Scenario, Noted, Patched} :
       files = [n \in Names |-> IF n \in dir THEN t ELSE <<>>]
  /\ backups = {}
  /\ now = 0
  /\ autoBackup \in BOOLEAN
  /\ inv = [p \in Procs |-> NoInvocation]
  /\ justPatched = FALSE
  /\ started = 0
  /\ faults = 0

RaceNext ==
  \/ \E p \in Procs, c \in Commands : Start(p, c)
  \/ \E p \in Procs : Step(p)

RaceSpec == RaceInit /\ [][RaceNext]_vars

\* ------------------------------------------------------------ the claims

IsPrefixOf(a, b) == Len(a) <= Len(b) /\ SubSeq(b, 1, Len(a)) = a

FullPatch(p) == inv[p].fn = "addCSPConfiguration"
Appending(p) == inv[p].fn \in {"addCSPSource", "addSourceWithValues"}

\* C1 (as claimed): whenever an invocation has written the config file, it has
\* made a backup before.
C1_EveryWriteBackedUp == \A p \in Procs : inv[p].writes > 0 => inv[p].backedUp

\* C1 (amended): whenever the script, or the extension with autoBackup on, has
\* written the config file, that invocation has made a backup before, and the
\* backup file holds the content the config file had before the write.
C1_WriteBackedUpWhenEnabled ==
  \A p \in Procs :
    inv[p].writes > 0 /\ (inv[p].surface = "cli" \/ autoBackup) =>
      /\ inv[p].backedUp
      /\ \E b \in backups :
           b.path = inv[p].path /\ b.stamp = inv[p].stamp /\ b.content = inv[p].content

C1_Witness ==
  \E p \in Procs :
    inv[p].writes > 0 /\ inv[p].backedUp /\ inv[p].surface = "ext"
      /\ inv[p].fn = "addSourceWithValues"

\* C2: no config file ever holds the policy definition `const CSP_POLICY = {`
\* more than once.
C2_PolicyNeverDuplicated == \A n \in dir : Count(files[n], PolicyDecl) <= 1

\* C3: a full patch that follows a full patch that inserted ends AlreadyPatched
\* without getting past the read, writes nothing and leaves the file as it
\* read it.
C3_SecondPatchIsNoOp ==
  \A p \in Procs :
    justPatched /\ inv[p].cmd = "addCSPConfiguration" =>
      /\ inv[p].pc \in {"find", "read", "done"}
      /\ inv[p].writes = 0
      /\ inv[p].pc = "done" =>
           inv[p].outcome = "AlreadyPatched" /\ files[inv[p].path] = inv[p].content

C3_Witness ==
  \E p \in Procs :
    justPatched /\ inv[p].cmd = "addCSPConfiguration" /\ inv[p].outcome = "AlreadyPatched"

\* C4: an invocation whose backup copy raised has ended, has written nothing,
\* and the config file is as it read it.
C4_FailedBackupAborts ==
  \A p \in Procs :
    inv[p].backupFailed =>
      inv[p].pc = "done" /\ inv[p].writes = 0 /\ files[inv[p].path] = inv[p].content

C4_Witness ==
  \E p \in Procs : inv[p].backupFailed /\ inv[p].fn = "addCSPSource" /\ inv[p].pc = "done"

\* The string literals of the array after the key at offset i, read as
\* JavaScript reads them: a literal runs from a quote to the next quote of the
\* same kind, and the array ends at the first `]` outside a literal.
RECURSIVE Literals(_, _)
Literals(text, i) ==
  LET o == First(i, Len(text) - 1, LAMBDA k : IsQuote(text[k + 1]) \/ text[k + 1] = "]")
      c == First(o + 1, Len(text) - 1, LAMBDA k : text[k + 1] = text[o + 1])
  IN IF o = -1 \/ text[o + 1] = "]" THEN <<>>
     ELSE IF c = -1 THEN <<Slice(text, o, Len(text))>>
     ELSE <<Slice(text, o, c + 1)>> \o Literals(text, c + 1)

\* The elements of the directive's array in the text.
ArrayOf(text, directive) ==
  LET m == directiveRegex(text, directive)
  IN IF m.found THEN Literals(text, m.capFrom) ELSE <<>>

\* C5: after an append, the elements the directive's array had before are
\* still its first elements, unchanged and in order.
C5_AppendKeepsTokens ==
  \A p \in Procs :
    Appending(p) /\ inv[p].outcome = "Added" =>
      IsPrefixOf(ArrayOf(inv[p].content, inv[p].directive),
                 ArrayOf(files[inv[p].path], inv[p].directive))

\* C6: an append whose directive pattern is not in the text it read never
\* comes to the write, ends DirectiveNotFound once past the match, and leaves
\* the config file as it read it.
C6_DirectiveNotFoundWritesNothing ==
  \A p \in Procs :
    /\ inv[p].outcome = "DirectiveNotFound" =>
         inv[p].writes = 0 /\ files[inv[p].path] = inv[p].content
    /\ ( /\ Appending(p)
         /\ inv[p].pc \in {"mutate", "write", "done"}
         /\ ~directiveRegex(inv[p].content, inv[p].directive).found ) =>
           /\ inv[p].pc # "write"
           /\ inv[p].writes = 0
           /\ inv[p].newContent = <<>>

C6_Witness ==
  \E p \in Procs :
    inv[p].outcome = "DirectiveNotFound" /\ inv[p].fn = "addCSPSource"
      /\ inv[p].surface = "cli"

\* The scenario file after the full patch of a surface.
ScenarioPatched(surface) ==
  ImportLine \o <<NL>> \o TemplateOf(surface) \o <<NL>>
    \o <<"export", SP, "default", SP, "defineConfig", "(", "{">> \o ServerOf(surface)
    \o <<NL, SP2, "plugins", ":", SP, "[", "]", ",", NL, "}", ")", ";", NL>>

\* C7: the full patch of the scenario file writes the import line, the policy
\* block, then `export default defineConfig({` with the headers entry first
\* and `plugins: [],` after it.
C7_ScenarioPatch ==
  \A p \in Procs :
    FullPatch(p) /\ inv[p].content = Scenario /\ inv[p].outcome = "Patched" =>
      files[inv[p].path] = ScenarioPatched(inv[p].surface)

C7_Witness ==
  \E p \in Procs :
    FullPatch(p) /\ inv[p].content = Scenario /\ inv[p].outcome = "Patched"
      /\ inv[p].surface = "cli"

\* C8: when the import pattern matches the text read, the text with the policy
\* block is the text up to the end of the match, the template between two line
\* feeds, then the rest; without a match the template is prepended.
C8_BlockAfterImportRun ==
  \A p \in Procs :
    FullPatch(p) /\ inv[p].pc \in {"write", "done"} /\ inv[p].trace # <<>>
      /\ inv[p].trace[Len(inv[p].trace)] \in {"Mutated", "Done"} =>
      LET text == inv[p].content
          tpl == TemplateOf(inv[p].surface)
          m == importRegex(text)
      IN insertPolicyBlock(text, tpl) =
           IF m.found
           THEN Slice(text, 0, m.end) \o <<NL>> \o tpl \o <<NL>>
                  \o Slice(text, m.end, Len(text))
           ELSE tpl \o <<NL>> \o text

\* C9: the file an invocation works on is vite.config.ts if it exists, else
\* vite.config.js if it exists, else vite.config.mjs; it ends NoConfigFound
\* exactly when none exists.
C9_FirstCandidateWins ==
  \A p \in Procs :
    inv[p].pc \in {"read", "offer", "directive", "source", "backup", "mutate",
                   "write", "done"}
      /\ (inv[p].pc = "done" => inv[p].path # "null" \/ inv[p].outcome = "NoConfigFound") =>
      /\ inv[p].outcome = "NoConfigFound" <=> dir = {}
      /\ inv[p].path =
           IF "vite.config.ts" \in dir THEN "vite.config.ts"
           ELSE IF "vite.config.js" \in dir THEN "vite.config.js"
           ELSE IF "vite.config.mjs" \in dir THEN "vite.config.mjs"
           ELSE "null"

C9_Witness ==
  \E p \in Procs :
    inv[p].path = "vite.config.js" /\ "vite.config.mjs" \in dir /\ inv[p].pc = "read"

\* The phases of a full patch, in order.
Phases == <<"Located", "NotPatched", "BackedUp", "Mutated", "Written", "Done">>
PhasesNoBackup == <<"Located", "NotPatched", "Mutated", "Written", "Done">>

\* trace is a run of the machine whose full course is `course`: a prefix of
\* it, or a prefix cut short by a halt, or the AlreadyPatched halt.
FollowsMachine(trace, course) ==
  \/ IsPrefixOf(trace, course)
  \/ trace = <<"Located", "AlreadyPatched", "Halt">>
  \/ /\ trace # <<>>
     /\ trace[Len(trace)] = "Halt"
     /\ Len(trace) <= Len(course) - 1
     /\ IsPrefixOf(SubSeq(trace, 1, Len(trace) - 1), course)

\* C10 (as claimed): the phases of every full patch follow
\* Located -> AlreadyPatched: Halt | NotPatched -> Backed-up -> Mutated ->
\* Written -> Done, a failure halting it at once.
C10_StateMachine ==
  \A p \in Procs :
    FullPatch(p) =>
      /\ FollowsMachine(inv[p].trace, Phases)
      /\ inv[p].pc = "done" <=>
           (inv[p].trace # <<>> /\ inv[p].trace[Len(inv[p].trace)] \in {"Done", "Halt"})

\* C10 (amended): the same, except that a full patch of the extension with
\* autoBackup off goes from NotPatched to Mutated with no Backed-up phase.
C10_StateMachineBackupEnabled ==
  \A p \in Procs :
    FullPatch(p) =>
      /\ FollowsMachine(inv[p].trace,
           IF inv[p].surface = "cli" \/ autoBackup THEN Phases ELSE PhasesNoBackup)
      /\ inv[p].pc = "done" <=>
           (inv[p].trace # <<>> /\ inv[p].trace[Len(inv[p].trace)] \in {"Done", "Halt"})

C10_Witness ==
  \E p \in Procs : FullPatch(p) /\ inv[p].surface = "cli" /\ inv[p].trace = Phases

\* C11: a backup file, once written, is never overwritten or removed: every
\* backup file there is before a step is there after it, under the same path and
\* with the same content.
C11_BackupNeverOverwritten == [][\A b \in backups : b \in backups']_vars

\* C12: a full patch of a text in which, with the policy block inserted, the
\* `export default defineConfig({` pattern is not found still writes the text
\* with the policy block (and no headers entry), and the headers literal has
\* been shown to the operator as manual instructions.
C12_DegradesToManualInstructions ==
  \A p \in Procs :
    LET withPolicy == insertPolicyBlock(inv[p].content, TemplateOf(inv[p].surface))
    IN FullPatch(p) /\ inv[p].outcome = "Patched" /\ ~configRegex(withPolicy).found =>
         /\ files[inv[p].path] = withPolicy
         /\ inv[p].manual

\* C13: an invocation that ended NoConfigFound or DirectiveNotFound has ended
\* the script's process with a non-zero exit status, or shown a message in the
\* extension; one that ended AlreadyPatched has exit status 0 in the script and
\* has shown a warning in the extension.
C13_FailuresReported ==
  \A p \in Procs :
    /\ inv[p].outcome \in {"NoConfigFound", "DirectiveNotFound"} =>
         IF inv[p].surface = "cli" THEN inv[p].exit >= 1 ELSE inv[p].message # "none"
    /\ inv[p].outcome = "AlreadyPatched" =>
         IF inv[p].surface = "cli" THEN inv[p].exit = 0 ELSE inv[p].message = "warning"

\* C14: an add-source invocation that is still in its exchange with the
\* operator, or has no non-blank source, or ended on a cancel, a declined
\* confirmation, an invalid choice or a blank source, has made no backup and
\* written nothing, and the config file is as it was read.
C14_NoMutationBeforeExchange ==
  \A p \in Procs :
    ( \/ inv[p].pc \in {"paste", "confirm", "directive", "source"}
      \/ Appending(p) /\ trim(inv[p].source) = <<>>
      \/ inv[p].outcome \in {"Cancelled", "InvalidChoice", "EmptySourceInput"} ) =>
        /\ ~inv[p].backedUp
        /\ ~inv[p].backupFailed
        /\ inv[p].writes = 0
        /\ inv[p].path # "null" /\ inv[p].pc # "read" => files[inv[p].path] = inv[p].content

C14_Witness ==
  \E p \in Procs :
    inv[p].outcome = "EmptySourceInput" /\ inv[p].directive = "script-src"
      /\ inv[p].pc = "done"

\* C15: nothing holds back a write of text derived from a read that is out of
\* date: an invocation that has come to its write while the file no longer
\* holds what it read can make the write.
C15_StaleWriteNotHeldBack ==
  \A p \in Procs :
    inv[p].pc = "write" /\ files[inv[p].path] # inv[p].content => ENABLED WriteConfig(p)

\* The lost update: A and B read the same text, both report their source as
\* added, and the file holds A's append to the text read, without B's source.
C15_Witness ==
  /\ inv["A"].fn = "addCSPSource" /\ inv["B"].fn = "addCSPSource"
  /\ inv["A"].outcome = "Added" /\ inv["B"].outcome = "Added"
  /\ inv["A"].path = inv["B"].path
  /\ inv["A"].content = inv["B"].content
  /\ inv["A"].source = Loopback6 /\ inv["B"].source = Api
  /\ files[inv["A"].path] =
       appendSource(inv["A"].content, inv["A"].directive, quoted(inv["A"].source))
  /\ ~Includes(files[inv["A"].path], quoted(inv["B"].source))

\* C16 (as claimed): the full patch of the minimal config (nothing but an
\* `export default defineConfig({` call with an empty body) writes a text with
\* exactly one occurrence of the marker CSP_POLICY and exactly one of the
\* headers key.
C16_OneMarkerOneKey ==
  \A p \in Procs :
    FullPatch(p) /\ inv[p].content = Minimal /\ inv[p].outcome = "Patched" =>
      /\ Count(files[inv[p].path], Marker) = 1
      /\ Count(files[inv[p].path], HeadersKey) = 1

\* C16 (amended): that text holds exactly one policy definition and exactly one
\* headers key; the marker itself occurs in the definition and again in the
\* headers literal, and once more in a comment of the script's template.
C16_OneDefinitionOneKey ==
  \A p \in Procs :
    FullPatch(p) /\ inv[p].content = Minimal /\ inv[p].outcome = "Patched" =>
      /\ Count(files[inv[p].path], PolicyDecl) = 1
      /\ Count(files[inv[p].path], HeadersKey) = 1
      /\ Count(files[inv[p].path], Marker) = IF inv[p].surface = "cli" THEN 3 ELSE 2

C16_Witness ==
  \E p \in Procs :
    FullPatch(p) /\ inv[p].content = Minimal /\ inv[p].outcome = "Patched"
      /\ inv[p].surface = "ext" /\ Count(files[inv[p].path], HeadersKey) = 1

\* The keys of the policy object.
Directives ==
  {"default-src", "script-src", "style-src", "font-src", "img-src", "connect-src",
   "worker-src"}

\* The quoted token an append adds.
NewSource(p) ==
  IF inv[p].fn = "addCSPSource" THEN quoted(inv[p].source) ELSE Sq(domainOf(inv[p].source))

\* The text outside the match m of `before` is the same in `after`.
SameOutside(before, after, m) ==
  /\ Len(after) >= Len(before) - (m.end - m.index)
  /\ Slice(after, 0, m.index) = Slice(before, 0, m.index)
  /\ Slice(after, Len(after) - (Len(before) - m.end), Len(after))
       = Slice(before, m.end, Len(before))

\* C17: after an append, the array of the directive is what it was with the
\* new quoted source as one more element at the end, the array of every other
\* directive is what it was, and so is all text outside the array matched.
C17_AppendChangesOnlyItsArray ==
  \A p \in Procs :
    Appending(p) /\ inv[p].outcome = "Added" =>
      /\ ArrayOf(files[inv[p].path], inv[p].directive)
           = ArrayOf(inv[p].content, inv[p].directive) \o <<NewSource(p)>>
      /\ \A d \in Directives \ {inv[p].directive} :
           ArrayOf(files[inv[p].path], d) = ArrayOf(inv[p].content, d)
      /\ SameOutside(inv[p].content, files[inv[p].path],
                     directiveRegex(inv[p].content, inv[p].directive))

\* C18: the text insertPolicyBlock makes of a text without the marker holds
\* the marker, whether the template went after an import run or on top; so
\* does the new text of every full patch that has come to its write.
C18_InsertionSelfDetecting ==
  \A p \in Procs :
    /\ ~isAlreadyPatched(inv[p].content) =>
         isAlreadyPatched(insertPolicyBlock(inv[p].content, TemplateOf(inv[p].surface)))
    /\ FullPatch(p) /\ inv[p].pc = "write" => isAlreadyPatched(inv[p].newContent)

C18_Witness ==
  \E p \in Procs :
    /\ FullPatch(p) /\ inv[p].pc = "write"
    /\ inv[p].content = Minimal
    /\ ~isAlreadyPatched(inv[p].content)
    /\ ~importRegex(inv[p].content).found
    /\ isAlreadyPatched(inv[p].newContent)

\* Offsets of the text at which the call shape of configRegex matches.
Occurrences(text) == {k \in 0..(Len(text) - 1) : ConfigAt(text, k) # -1}

\* C19: in a full patch that has made its new text, the headers literal
\* stands right after the opening brace of the first occurrence of
\* `export default defineConfig({` in the text that holds the template, the
\* text after that occurrence (later occurrences included) is as it was, the
\* headers key occurs once, and the template holds no occurrence of its own.
C19_HeadersAtFirstOccurrenceOnly ==
  \A p \in Procs :
    FullPatch(p) /\ inv[p].pc = "write" =>
      LET template == TemplateOf(inv[p].surface)
          server == ServerOf(inv[p].surface)
          holds(withPolicy, m) ==
            /\ Occurrences(template) = {}
            /\ Cardinality(Occurrences(withPolicy)) = Cardinality(Occurrences(inv[p].content))
            /\ m.found = (Occurrences(withPolicy) # {})
            /\ IF m.found
               THEN /\ \A k \in Occurrences(withPolicy) : m.index <= k
                    /\ inv[p].newContent =
                         Slice(withPolicy, 0, m.index) \o ExportDefault \o server
                           \o Slice(withPolicy, m.end, Len(withPolicy))
                    /\ Count(inv[p].newContent, HeadersKey) = 1
                    /\ Cardinality(Occurrences(inv[p].newContent))
                         = Cardinality(Occurrences(withPolicy))
               ELSE inv[p].newContent = withPolicy
          of(withPolicy) == holds(withPolicy, configRegex(withPolicy))
      IN of(insertPolicyBlock(inv[p].content, template))

C19_Witness ==
  \E p \in Procs :
    /\ FullPatch(p) /\ inv[p].pc = "write"
    /\ inv[p].content = Twice
    /\ Cardinality(Occurrences(inv[p].newContent)) = 2
    /\ Count(inv[p].newContent, HeadersKey) = 1
    /\ Count(inv[p].newContent, ExportDefault \o ServerOf(inv[p].surface)) = 1

\* Invocation q of addCSPSource ran after invocation p of addCSPSource, on the
\* text p wrote, with the directive and the source of p, and both have written.
AppendedAgain(p, q) ==
  /\ p # q
  /\ inv[p].fn = "addCSPSource" /\ inv[p].outcome = "Added"
  /\ inv[q].fn = "addCSPSource" /\ inv[q].outcome = "Added"
  /\ inv[q].path = inv[p].path
  /\ inv[q].directive = inv[p].directive
  /\ inv[q].source = inv[p].source
  /\ inv[q].content = appendSource(inv[p].content, inv[p].directive, quoted(inv[p].source))
  /\ files[inv[q].path] = appendSource(inv[q].content, inv[q].directive, quoted(inv[q].source))

\* C20: after two invocations of the append with the same directive and the
\* same source, the second on the text the first wrote, the file holds the
\* quoted source two times more than the text the first one read.
C20_SameSourceInsertedTwice ==
  \A p, q \in Procs :
    AppendedAgain(p, q) =>
      Count(files[inv[q].path], quoted(inv[q].source))
        = Count(inv[p].content, quoted(inv[p].source)) + 2

\* Invocation q of addSourceWithValues ran on the text invocation p of
\* addSourceWithValues wrote, with the directive and the origin of p: the
\* origin is in the directive's array when q reads the file.
OriginPresent(p, q) ==
  /\ p # q
  /\ inv[p].fn = "addSourceWithValues" /\ inv[p].outcome = "Added"
  /\ inv[q].fn = "addSourceWithValues" /\ inv[q].pc = "done"
  /\ inv[q].path = inv[p].path
  /\ inv[q].directive = inv[p].directive
  /\ validURL(inv[q].source)
  /\ domainOf(inv[q].source) = domainOf(inv[p].source)
  /\ inv[q].content = appendSource(inv[p].content, inv[p].directive, Sq(domainOf(inv[p].source)))

\* C21: a fixCSPError invocation whose origin an earlier one has put into the
\* array of the same directive writes nothing, and the file holds the quoted
\* origin no more often than after the earlier one.
C21_PresentOriginNotWritten ==
  \A p, q \in Procs :
    OriginPresent(p, q) =>
      /\ inv[q].writes = 0
      /\ inv[q].outcome # "Added"
      /\ Count(files[inv[q].path], Sq(domainOf(inv[q].source)))
           = Count(inv[q].content, Sq(domainOf(inv[q].source)))

\* An invocation of fixCSPError that made its token of the blocked URL, and
\* appended it or found it in the array.
Fixing(p) ==
  /\ inv[p].fn = "addSourceWithValues" /\ validURL(inv[p].source)
  /\ inv[p].pc = "done" /\ inv[p].outcome \in {"Added", "SourceExists"}

\* C22: the token fixCSPError makes of a blocked URL is the same for two URLs
\* exactly when they have the same scheme, host name and port.
C22_TokenIsSchemeHostPort ==
  \A p, q \in Procs :
    Fixing(p) /\ Fixing(q) =>
      (domainOf(inv[p].source) = domainOf(inv[q].source))
        = (inv[p].source[1] = inv[q].source[1] /\ host(inv[p].source) = host(inv[q].source))

\* C23: a step that changes the content of a file is the one write of an
\* invocation that had not written before: it puts the invocation's new text
\* in the place of the file it read, and the invocation is done after it. So
\* no invocation, the chained one included, writes twice.
C23_OneWritePerInvocation ==
  [][files' # files =>
       \E p \in Procs :
         /\ inv[p].pc = "write" /\ inv[p].writes = 0
         /\ inv'[p].pc = "done" /\ inv'[p].writes = 1
         /\ files' = [files EXCEPT ![inv[p].path] = inv[p].newContent]
         /\ \A q \in Procs \ {p} : inv'[q] = inv[q]]_vars

C23_Witness ==
  \E p \in Procs :
    /\ inv[p].cmd = "addCSPSource" /\ inv[p].chained
    /\ inv[p].pc = "done" /\ inv[p].outcome = "Patched"
    /\ inv[p].writes = 1
    /\ files[inv[p].path] =
         insertServerHeaders(insertPolicyBlock(inv[p].content, CSP_POLICY_TEMPLATE),
                             SERVER_CONFIG)

\* The invocation has looked for its directive's array: the new text is made
\* or the directive was reported as not found.
Matched(p) ==
  \/ inv[p].pc = "write"
  \/ inv[p].pc = "done" /\ inv[p].outcome \in {"Added", "DirectiveNotFound"}

\* Invocation p of the script's add-source and invocation q of the extension's
\* addSource, on the same text, with the same directive and the same source.
SameAppend(p, q) ==
  /\ inv[p].surface = "cli" /\ inv[p].fn = "addCSPSource"
  /\ inv[q].surface = "ext" /\ inv[q].fn = "addCSPSource"
  /\ Matched(p) /\ Matched(q)
  /\ inv[p].content = inv[q].content
  /\ inv[p].directive = inv[q].directive
  /\ trim(inv[p].source) = trim(inv[q].source)

Selectable ==
  {"script-src", "style-src", "font-src", "connect-src", "img-src", "worker-src"}

\* C25: the script's add-source goes past its directive prompt only with one
\* of the six directives, and an invocation that ended with an invalid choice
\* exited non-zero with no backup made and nothing written.
C25_OnlySixChoicesProceed ==
  \A p \in Procs :
    inv[p].surface = "cli" /\ inv[p].fn = "addCSPSource" =>
      /\ inv[p].directive \in Selectable \cup {"-"}
      /\ inv[p].outcome = "InvalidChoice" =>
           inv[p].exit >= 1 /\ ~inv[p].backedUp /\ inv[p].writes = 0

\* Two commas with nothing but white space between them: in an array literal,
\* an empty element.
EmptyElement(text) ==
  \E i \in 1..(Len(text) - 1) :
    /\ text[i] = ","
    /\ SkipWs(text, i) < Len(text)
    /\ text[SkipWs(text, i) + 1] = ","

\* C26: after an append, the directive's array holds the elements it had and
\* then the new one, and the file has no empty element if the text read had
\* none; so it is after every number of appends in a row.
C26_AppendsKeepOneSeparator ==
  \A p \in Procs :
    Appending(p) /\ inv[p].outcome = "Added" =>
      /\ ArrayOf(files[inv[p].path], inv[p].directive)
           = ArrayOf(inv[p].content, inv[p].directive) \o <<NewSource(p)>>
      /\ ~EmptyElement(inv[p].content) => ~EmptyElement(files[inv[p].path])

\* C27: an invocation that has ended without a write has made no backup; so
\* it is for an add-source that did not find its directive and for a
\* fixCSPError that ended on an invalid URL or on a source already present.
C27_NoBackupWithoutWrite ==
  \A p \in Procs :
    /\ inv[p].pc = "done" /\ inv[p].writes = 0 => ~inv[p].backedUp
    /\ inv[p].outcome \in {"DirectiveNotFound", "InvalidURL", "SourceExists"} =>
         ~inv[p].backedUp

\* C28: a file that holds the policy definition a full patch puts in holds,
\* for each of the six directives, an array the append's pattern finds, and it
\* stays so through the appends; an append to one of the six that did not find
\* its array read a text without the definition.
C28_SixDirectivesFoundAfterPatch ==
  /\ \A n \in dir :
       Count(files[n], PolicyDecl) >= 1 =>
         \A d \in Selectable : directiveRegex(files[n], d).found
  /\ \A p \in Procs :
       /\ FullPatch(p) /\ inv[p].outcome = "Patched" =>
            Count(files[inv[p].path], PolicyDecl) >= 1
       /\ Appending(p) /\ inv[p].outcome = "DirectiveNotFound"
            /\ inv[p].directive \in Selectable =>
            Count(inv[p].content, PolicyDecl) = 0

C28_Witness ==
  \E p \in Procs :
    /\ justPatched
    /\ inv[p].fn = "addCSPSource" /\ inv[p].directive = "worker-src"
    /\ inv[p].pc = "done" /\ inv[p].outcome = "Added"
    /\ Count(inv[p].content, PolicyDecl) = 1
    /\ \A d \in Selectable : directiveRegex(files[inv[p].path], d).found

\* C29: whatever the interleaving of the invocations, no file holds the
\* policy definition more than once.
C29_PolicyDefinedAtMostOnce ==
  \A n \in Names : Count(files[n], PolicyDecl) <= 1

\* The text without the n tokens that follow offset at.
Without(text, at, n) == Slice(text, 0, at) \o Slice(text, at + n, Len(text))

\* The texts left when one occurrence of pat is taken out of text.
TakenOut(text, pat) ==
  {Without(text, a, Len(pat)) : a \in {a \in 0..Len(text) : OccursAt(text, pat, a)}}

\* The input text, and the input text with one occurrence of the call shape
\* rewritten to `export default defineConfig({`.
Canonical(text) ==
  {Slice(text, 0, j) \o ExportDefault \o Slice(text, ConfigAt(text, j), Len(text)) :
     j \in Occurrences(text)}

\* C30: the new text of a full patch, with the headers literal (if the call
\* shape was in the text read) and the template with its newlines taken out,
\* is the text read, but for the call opening rewritten to its canonical
\* spelling.
C30_FullPatchOnlyInserts ==
  \A p \in Procs :
    FullPatch(p) /\ inv[p].pc = "write" =>
      LET template == TemplateOf(inv[p].surface)
          server == ServerOf(inv[p].surface)
          blocks == {<<NL>> \o template \o <<NL>>, template \o <<NL>>}
          bare(texts) == UNION {TakenOut(t, b) : t \in texts, b \in blocks}
      IN IF Occurrences(inv[p].content) = {}
         THEN inv[p].content \in bare({inv[p].newContent})
         ELSE bare(TakenOut(inv[p].newContent, server)) \cap Canonical(inv[p].content) # {}

C30_Witness ==
  \E p \in Procs :
    /\ FullPatch(p) /\ inv[p].pc = "write"
    /\ inv[p].content = Twice
    /\ ~isAlreadyPatched(inv[p].content)
    /\ Len(inv[p].newContent)
         = Len(Twice) - 1 + Len(TemplateOf(inv[p].surface)) + 2
             + Len(ServerOf(inv[p].surface))

=============================================================================
